---- MODULE Spec2Model ----
(***************************************************************************)
(* Kiosk16: the scan cooldown gate, the ad pack selection and the metrics  *)
(* stores (file store, Google Sheets store, hybrid store) of server.js,    *)
(* and the file-only variant of the same server.                           *)
(*                                                                         *)
(* Time is Date.now() in milliseconds.  A request handler is a chain of    *)
(* synchronous segments.  A segment that ends in an await of an already    *)
(* settled promise keeps the event loop (the variable cur names the        *)
(* handler whose continuation is next in the microtask queue); a segment   *)
(* that ends in a network call of the sheet (or in the await of the still  *)
(* pending googleStore promise) gives the event loop up (cur = 0).         *)
(***************************************************************************)
EXTENDS Integers, Sequences, FiniteSets, TLC

VARIABLES
    clock,        \* Date.now(): the last value the process has read
    storeKind,    \* "hybrid" (server.js) or "file" (the file-only variant)
    envForceAd,   \* process.env.FORCE_AD: <<>> when unset, <<s>> when set to s
    envAdminKey,  \* process.env.ADMIN_KEY: <<>> when unset, <<s>> when set to s
    rotation,     \* the weekday table of rotation mode as <<table>>, <<>> in forced mode
    google,       \* the googleStore promise: "pending", "ready" (sheet), "none" (sheet = null)
    recentScans,  \* Map IP -> timestamp
    metrics,      \* fileStore's in-memory metrics.days: day -> [qr_scans, redirects]
    disk,         \* the days of data/metrics.json as last written
    sheet,        \* rows of the Stats sheet, each <<date, QR_Scans, Game_Wins, Total_Plays>>
    req,          \* the requests: position and locals of each handler, and its response
    cur,          \* the handler holding the event loop, 0 when the loop is free
    faults,       \* I/O failures injected so far
    jits,         \* clock advances seen between two reads of one synchronous segment
    lastAllowed   \* history: IP -> timestamp recorded by its last allowed scan, 0 when none

\* the configuration the process was started with
env == <<storeKind, envForceAd, envAdminKey, rotation>>

vars == <<clock, env, google, recentScans, metrics, disk, sheet,
          req, cur, faults, jits, lastAllowed>>

(***************************************************************************)
(* Bounds of the model.                                                    *)
(***************************************************************************)
MaxReqs == 3
MaxFaults == 1
MaxJitter == 1
MaxElapsed == 1800004

Reqs == 1..MaxReqs

\* The process starts 15 minutes before midnight in Brisbane (1970-01-01T13:45Z).
StartClock == (13 * 60 + 45) * 60 * 1000
\* The runs last MaxElapsed from their start; a process started on a later day starts
\* at the same time of day.
RunStart == StartClock + ((clock - StartClock) \div (24 * 60 * 60 * 1000)) * (24 * 60 * 60 * 1000)
MaxClock == RunStart + MaxElapsed
\* Time that passes before the event loop takes up a request or the answer to a call:
\* the runs of the file-only server are timed finely around the cooldown window,
\* those of server.js coarsely.
Elapse == IF storeKind = "file" THEN {0, 300000, 599999, 900000, 1800001} ELSE {0, 600000}
\* Later instants the event loop can find itself at
Later == { clock + d : d \in { e \in Elapse : clock + e <= MaxClock } }
\* Time that passes between two clock reads of one synchronous segment.
Jitter == { j \in (IF storeKind = "file" THEN {0, 1} ELSE {0}) : jits + j <= MaxJitter }

\* The characters and strings the configuration and the query are drawn from.
Chars == {" ", "0", "1", "8", "9", "x"}
Strs == {<<>>} \cup { <<a>> : a \in Chars } \cup { <<a, b>> : a \in Chars, b \in Chars }
\* an optional string: <<>> when undefined, <<s>> when s
Optional(S) == {<<>>} \cup { <<x>> : x \in S }

\* req.query.ad of the requests: absent or " 8" (server.js: absent)
QueryAds == IF storeKind = "file" THEN { <<>>, << <<" ", "8">> >> } ELSE { <<>> }

\* req.ip / req.connection.remoteAddress of the requests ("" when undefined).
Addrs == { <<"10.0.0.1", "10.0.0.1">>, <<"", "">> }

(***************************************************************************)
(* Strings the code inspects are sequences of one-character strings.       *)
(***************************************************************************)
WhiteSpace == {" ", "\t", "\n"}

RECURSIVE trimStart(_)
trimStart(s) ==
    IF s # <<>> /\ Head(s) \in WhiteSpace THEN trimStart(Tail(s)) ELSE s

RECURSIVE trimEnd(_)
trimEnd(s) ==
    IF s # <<>> /\ s[Len(s)] \in WhiteSpace
    THEN trimEnd(SubSeq(s, 1, Len(s) - 1)) ELSE s

\* String.prototype.trim
trim(s) == trimEnd(trimStart(s))

\* x || dflt for an optional string x: undefined and "" are falsy
orElse(x, dflt) == IF x = <<>> \/ x[1] = <<>> THEN dflt ELSE x[1]

\* mutant: /^[0-9]$/
isAnyDigit(s) ==
    Len(s) = 1 /\ s[1] \in {"0", "1", "2", "3", "4", "5", "6", "7", "8", "9"}

\* /^[1-8]$/.test(s)
isAdDigit(s) == Len(s) = 1 /\ s[1] \in {"1", "2", "3", "4", "5", "6", "7", "8"}

FORCE_AD == trim(orElse(envForceAd, <<"3">>))

FORCED == IF isAdDigit(FORCE_AD) THEN FORCE_AD ELSE <<"3">>

\* const qa = (req.query.ad || '').trim(); const n = /^[1-8]$/.test(qa) ? qa : FORCED
selectAd(queryAd) ==
    LET qa == trim(orElse(queryAd, <<>>))
    IN  IF isAdDigit(qa) THEN qa ELSE FORCED

\* `ad${n}`
packOf(n) == <<"a", "d">> \o n

\* process.env.ADMIN_KEY || null: <<>> when null, else <<key>>
ADMIN_KEY == IF envAdminKey = <<>> \/ envAdminKey[1] = <<>> THEN <<>> ELSE envAdminKey

\* mutant: a request without key let through
requireAdminKeyIfGiven(queryKey) ==
    IF ADMIN_KEY = <<>> THEN "null"
    ELSE IF orElse(queryKey, ADMIN_KEY[1]) = ADMIN_KEY[1] THEN "null"
    ELSE "blocked"

\* requireAdmin: null when the request may pass, 'blocked' after the 401 was sent
requireAdmin(queryKey) ==
    IF ADMIN_KEY = <<>> THEN "null"
    ELSE IF orElse(queryKey, <<>>) = ADMIN_KEY[1] THEN "null"
    ELSE "blocked"

(***************************************************************************)
(* Day key: en-CA date of the instant in Australia/Brisbane (UTC+10, no    *)
(* daylight saving), <<year, month, day>>; the instants of the model lie   *)
(* in January 1970.                                                        *)
(***************************************************************************)
BrisbaneOffsetMs == 10 * 60 * 60 * 1000
MsPerDay == 24 * 60 * 60 * 1000

dayKeyBrisbane(t) == <<1970, 1, 1 + ((t + BrisbaneOffsetMs) \div MsPerDay)>>

Digits == <<"0", "1", "2", "3", "4", "5", "6", "7", "8", "9">>
DigitChar(n) == Digits[n + 1]

\* mutant: month and day formatted as 'numeric', without the leading zero
dayStringUnpadded(day) ==
    LET num(n) == IF n < 10 THEN <<DigitChar(n)>>
                  ELSE <<DigitChar(n \div 10), DigitChar(n % 10)>>
    IN  <<DigitChar(day[1] \div 1000), DigitChar((day[1] \div 100) % 10),
          DigitChar((day[1] \div 10) % 10), DigitChar(day[1] % 10)>>
        \o <<"-">> \o num(day[2]) \o <<"-">> \o num(day[3])

\* the day key as the string en-CA formats it: YYYY-MM-DD, month and day '2-digit'
dayString(day) ==
    <<DigitChar(day[1] \div 1000), DigitChar((day[1] \div 100) % 10),
      DigitChar((day[1] \div 10) % 10), DigitChar(day[1] % 10), "-",
      DigitChar(day[2] \div 10), DigitChar(day[2] % 10), "-",
      DigitChar(day[3] \div 10), DigitChar(day[3] % 10)>>

\* the UTF-16 code unit of a character of a day string
charCode(c) ==
    IF c = "-" THEN 45
    ELSE 47 + (CHOOSE i \in 1..10 : Digits[i] = c)

\* a < b as Array.prototype.sort's default comparison orders two strings
strLess(a, b) ==
    \E i \in 1..Len(b) :
        /\ \A k \in 1..(i - 1) : k <= Len(a) /\ a[k] = b[k]
        /\ (i > Len(a) \/ charCode(a[i]) < charCode(b[i]))

RECURSIVE insertKey(_, _)
insertKey(x, s) ==
    IF s = <<>> THEN <<x>>
    ELSE IF strLess(dayString(x), dayString(Head(s))) THEN <<x>> \o s
         ELSE <<Head(s)>> \o insertKey(x, Tail(s))

\* keys.sort(): the day keys in ascending order of their strings
RECURSIVE sortKeys(_)
sortKeys(keys) ==
    IF keys = <<>> THEN <<>> ELSE insertKey(Head(keys), sortKeys(Tail(keys)))

\* the orders Object.keys can list the keys of a mapping in (the order of insertion)
KeyOrders(S) ==
    { k \in [1..Cardinality(S) -> S] :
        \A i, j \in 1..Cardinality(S) : i # j => k[i] # k[j] }

\* getMetricsRows: Object.keys(days).sort().map(d => ({ day: d, ...days[d] }))
getMetricsRows(keys, days) ==
    LET sorted == sortKeys(keys)
    IN  [i \in 1..Len(sorted) |-> [day |-> sorted[i], rec |-> days[sorted[i]]]]

(***************************************************************************)
(* Scan cooldown.                                                          *)
(***************************************************************************)
SCAN_COOLDOWN_MINUTES == 15
cooldownMs == SCAN_COOLDOWN_MINUTES * 60 * 1000

\* Math.ceil(a / b) for b > 0
CeilDiv(a, b) == -((-a) \div b)

Max(a, b) == IF a >= b THEN a ELSE b

\* req.ip || req.connection.remoteAddress || 'unknown'
clientIP(addr) ==
    IF addr[1] # "" THEN addr[1] ELSE IF addr[2] # "" THEN addr[2] ELSE "unknown"

IPs == { clientIP(a) : a \in Addrs }

\* recentScans.get(ip) is undefined or 0
noLastScan(scans, ip) == ip \notin DOMAIN scans \/ scans[ip] = 0

\* mutant: the window's last instant taken as still inside it
isRecentScanInclusive(scans, ip, now) ==
    IF noLastScan(scans, ip) THEN FALSE
    ELSE (now - scans[ip]) <= cooldownMs

isRecentScan(scans, ip, now) ==
    IF noLastScan(scans, ip) THEN FALSE
    ELSE (now - scans[ip]) < cooldownMs

\* mutant: the sweep of old entries left out
recordScanNoSweep(scans, ip, nowSet, nowCut) ==
    [k \in DOMAIN scans \cup {ip} |-> IF k = ip THEN nowSet ELSE scans[k]]

\* mutant: the sweep's cutoff taken in seconds, 30 s instead of 30 min
recordScanShortCutoff(scans, ip, nowSet, nowCut) ==
    LET withIp == [k \in DOMAIN scans \cup {ip} |-> IF k = ip THEN nowSet ELSE scans[k]]
        cutoff == nowCut - (SCAN_COOLDOWN_MINUTES * 2 * 1000)
        kept   == { k \in DOMAIN withIp : ~(withIp[k] < cutoff) }
    IN  [k \in kept |-> withIp[k]]

\* recentScans.set(ip, nowSet); then the sweep with cutoff read at nowCut
recordScan(scans, ip, nowSet, nowCut) ==
    LET withIp == [k \in DOMAIN scans \cup {ip} |-> IF k = ip THEN nowSet ELSE scans[k]]
        cutoff == nowCut - (SCAN_COOLDOWN_MINUTES * 2 * 60 * 1000)
        kept   == { k \in DOMAIN withIp : ~(withIp[k] < cutoff) }
    IN  [k \in kept |-> withIp[k]]

\* mutant: the minutes elapsed reported instead of the minutes remaining
getElapsedCooldown(scans, ip, now) ==
    IF noLastScan(scans, ip) THEN 0
    ELSE Max(0, CeilDiv(now - scans[ip], 60 * 1000))

getRemainingCooldown(scans, ip, now) ==
    IF noLastScan(scans, ip) THEN 0
    ELSE LET remaining == cooldownMs - (now - scans[ip])
         IN  Max(0, CeilDiv(remaining, 60 * 1000))

(***************************************************************************)
(* File store.                                                             *)
(***************************************************************************)
NoDays == [d \in {} |-> 0]

\* mutant: the day's record created anew at every bump
fileBumpFresh(m, day, field) ==
    LET base == [d \in DOMAIN m \cup {day} |->
                    IF d \in DOMAIN m /\ d # day THEN m[d]
                    ELSE [qr_scans |-> 0, redirects |-> 0]]
    IN  [base EXCEPT ![day][field] = @ + 1]

\* if (!metrics.days[day]) metrics.days[day] = {qr_scans: 0, redirects: 0};
\* metrics.days[day][field]++
fileBump(m, day, field) ==
    LET base == [d \in DOMAIN m \cup {day} |->
                    IF d \in DOMAIN m THEN m[d] ELSE [qr_scans |-> 0, redirects |-> 0]]
    IN  [base EXCEPT ![day][field] = @ + 1]

(***************************************************************************)
(* Google Sheets store.                                                    *)
(***************************************************************************)
columnIndex(column) ==
    CASE column = "QR_Scans" -> 1
      [] column = "Game_Wins" -> 2
      [] column = "Total_Plays" -> 3

\* parseInt(cell) || 0 for a cell holding a number
parseCell(v) == IF v \in Nat THEN v ELSE 0

\* rows.find(r => r._rawData[0] === date): index of the first such row, 0 when none
findRow(rows, date) ==
    LET hits == { i \in 1..Len(rows) : rows[i][1] = date }
    IN  IF hits = {} THEN 0 ELSE CHOOSE i \in hits : \A k \in hits : i <= k

\* row._rawData[columnIndex] = currentValue + increment
bumpedRow(rawData, column, increment) ==
    [rawData EXCEPT ![columnIndex(column) + 1] = parseCell(@) + increment]

\* getStats: stats.days[date] = {...} row after row, a later row of a date replacing an earlier one
statsDays(rows) ==
    LET dates == { rows[i][1] : i \in { k \in 1..Len(rows) : rows[k][1] # <<>> } }
        last(d) == CHOOSE i \in 1..Len(rows) :
                      /\ rows[i][1] = d
                      /\ \A k \in 1..Len(rows) : rows[k][1] = d => k <= i
    IN  [d \in dates |->
            [qr_scans    |-> parseCell(rows[last(d)][2]),
             redirects   |-> parseCell(rows[last(d)][2]),
             game_wins   |-> parseCell(rows[last(d)][3]),
             total_plays |-> parseCell(rows[last(d)][4])]]

\* mutant: the primary's stats returned whatever they hold
primaryGetMetrics(primary, fileMetrics) ==
    [src |-> "primary",
     days |-> IF primary = <<>> THEN NoDays ELSE statsDays(primary[1])]

\* hybridStore.getMetrics: the primary's stats when they hold a day, else the file store's
\* metrics; primary is <<>> when getStats threw or the sheet is null, else <<rows>>
hybridGetMetrics(primary, fileMetrics) ==
    LET googleDays == IF primary = <<>> THEN NoDays ELSE statsDays(primary[1])
    IN  IF DOMAIN googleDays # {}
        THEN [src |-> "primary", days |-> googleDays]
        ELSE [src |-> "local", days |-> fileMetrics]

(***************************************************************************)
(* Requests.                                                               *)
(***************************************************************************)
IdleReq ==
    [kind |-> "none", pc |-> "idle", ip |-> "", status |-> 0, wait |-> -1,
     now1 |-> 0, prior |-> 0, cutNow |-> 0, scanDay |-> <<>>, redirDay |-> <<>>,
     qa |-> <<>>, ad |-> <<>>, pack |-> <<>>, t |-> 0,
     column |-> "", date |-> <<>>, rowIdx |-> 0, rawData |-> <<>>,
     primary |-> <<>>, body |-> <<>>, key |-> <<>>, rows |-> <<>>]

\* requests take the slots in order
CanArrive(r) ==
    /\ cur = 0
    /\ req[r].pc = "idle"
    /\ IF r = 1 THEN TRUE ELSE req[r - 1].pc # "idle"

\* handlers parked on the pending googleStore promise, resumed in arrival order
Parked(rq) == { r \in Reqs : rq[r].pc = "awaitGoogle" }

\* stats handlers inside getMetrics' fallback: after getStats returned no day of a null
\* sheet, the file store's metrics are read three microtask turns later, after the
\* handlers resumed by the same settling of googleStore have run on (a scan is at its
\* bumpRedirect two turns after it resumed)
Yielded(rq) == { r \in Reqs : rq[r].pc = "statsLocal" }

\* who runs next when handler r gives the event loop up
release(rq, g, r) ==
    LET p == Parked(rq) \ {r}
        y == Yielded(rq)
    IN  IF g # "pending" /\ p # {} THEN CHOOSE x \in p : \A z \in p : x <= z
        ELSE IF y # {} THEN CHOOSE x \in y : \A z \in y : x <= z
        ELSE 0

\* where a handler continues after its google bump returned
afterBump(kind) == IF kind = "scan" THEN "bumpRedirect" ELSE "respond"

TypeOK ==
    /\ clock \in Nat /\ clock >= StartClock
    /\ storeKind \in {"file", "hybrid"}
    /\ google \in {"pending", "ready", "none"}
    /\ DOMAIN recentScans \subseteq IPs
    /\ cur \in 0..MaxReqs
    /\ faults \in 0..MaxFaults
    /\ jits \in 0..MaxJitter

\* the state after construction, with store = hybridStore() or store = fileStore()
InitWith(kind, forceAds) ==
    /\ clock = StartClock
    /\ storeKind = kind
    /\ google \in IF kind = "file" THEN {"none"} ELSE {"pending", "none"}
    /\ envForceAd \in forceAds
    /\ envAdminKey = <<>>
    /\ rotation = <<>>
    /\ recentScans = [k \in {} |-> 0]
    /\ metrics = NoDays
    /\ disk = NoDays
    /\ sheet = <<>>
    /\ req = [r \in Reqs |-> IdleReq]
    /\ cur = 0
    /\ faults = 0
    /\ jits = 0
    /\ lastAllowed = [k \in IPs |-> 0]

\* server.js, FORCE_AD unset
Init == InitWith("hybrid", {<<>>})

\* the file-only variant, FORCE_AD unset
InitFile == InitWith("file", {<<>>})

\* the file-only variant under every FORCE_AD
InitAd == InitWith("file", Optional(Strs))

(***************************************************************************)
(* GET /kiosk/scan                                                         *)
(***************************************************************************)
\* mutant: recordScan called before the cooldown check returns
scanGateAlwaysRecords(scans, ip, recent, nowSet, nowCut) ==
    recordScan(scans, ip, nowSet, nowCut)

\* mutant: recordScan put off until the store calls have returned
scanGateRecordsLater(scans, ip, recent, nowSet, nowCut) == scans

\* the map after the gate: a scan found recent returns before recordScan is reached
scanGateScans(scans, ip, recent, nowSet, nowCut) ==
    IF recent THEN scans ELSE recordScan(scans, ip, nowSet, nowCut)

\* First segment: the cooldown check, then either the wait page (HTTP 200) or recordScan.
\* isRecentScan reads the clock; getRemainingCooldown, or recordScan twice, read it again.
ScanGate(r, addr) ==
    /\ CanArrive(r)
    /\ \E now \in Later : \E j1, j2 \in Jitter :
         LET ip     == clientIP(addr)
             recent == isRecentScan(recentScans, ip, now)
             now2   == now + j1
             now3   == now2 + j2
         IN  /\ jits + j1 + j2 <= MaxJitter
             /\ jits' = jits + j1 + j2
             /\ recentScans' = scanGateScans(recentScans, ip, recent, now2, now3)
             /\ IF recent
                THEN /\ j2 = 0
                     /\ req' = [req EXCEPT ![r] =
                                  [@ EXCEPT !.kind = "scan", !.ip = ip, !.now1 = now,
                                            !.prior = lastAllowed[ip],
                                            !.wait = getRemainingCooldown(recentScans, ip, now2),
                                            !.status = 200, !.pc = "done"]]
                     /\ clock' = now2
                     /\ cur' = 0
                     /\ UNCHANGED lastAllowed
                ELSE /\ req' = [req EXCEPT ![r] =
                                  [@ EXCEPT !.kind = "scan", !.ip = ip, !.now1 = now,
                                            !.prior = lastAllowed[ip],
                                            !.cutNow = now3, !.pc = "bumpScan"]]
                     /\ clock' = now3
                     /\ cur' = r
                     /\ lastAllowed' = [lastAllowed EXCEPT ![ip] = now2]
    /\ UNCHANGED <<env, google, metrics, disk, sheet, faults>>

\* fileStore.bumpScan, reached through store.bumpScan(); saveMetrics writes the file
\* or throws, and nothing in the handler catches it
FileBumpScan(r) ==
    /\ cur = r
    /\ req[r].pc = "bumpScan"
    /\ \E j \in Jitter :
         LET day == dayKeyBrisbane(clock + j)
         IN  /\ clock' = clock + j
             /\ jits' = jits + j
             /\ metrics' = fileBump(metrics, day, "qr_scans")
             /\ \/ /\ disk' = metrics'
                   /\ req' = [req EXCEPT ![r] =
                                [@ EXCEPT !.scanDay = day,
                                          !.pc = IF storeKind = "file" THEN "bumpRedirect"
                                                 ELSE "awaitGoogle"]]
                   /\ UNCHANGED <<cur, faults>>
                \/ /\ faults < MaxFaults
                   /\ faults' = faults + 1
                   /\ req' = [req EXCEPT ![r] = [@ EXCEPT !.scanDay = day, !.pc = "threw"]]
                   /\ cur' = release(req', google, r)
                   /\ UNCHANGED disk
    /\ UNCHANGED <<env, google, recentScans, sheet, lastAllowed>>

\* fileStore.bumpRedirect, reached through store.bumpRedirect()
FileBumpRedirect(r) ==
    /\ cur = r
    /\ req[r].pc = "bumpRedirect"
    /\ \E j \in Jitter :
         LET day == dayKeyBrisbane(clock + j)
         IN  /\ clock' = clock + j
             /\ jits' = jits + j
             /\ metrics' = fileBump(metrics, day, "redirects")
             /\ \/ /\ disk' = metrics'
                   /\ req' = [req EXCEPT ![r] = [@ EXCEPT !.redirDay = day, !.pc = "target"]]
                   /\ UNCHANGED <<cur, faults>>
                \/ /\ faults < MaxFaults
                   /\ faults' = faults + 1
                   /\ req' = [req EXCEPT ![r] = [@ EXCEPT !.redirDay = day, !.pc = "threw"]]
                   /\ cur' = release(req', google, r)
                   /\ UNCHANGED disk
    /\ UNCHANGED <<env, google, recentScans, sheet, lastAllowed>>

\* mutant: the instant the request arrived reused as t
targetTArrival(now, arrived) == arrived

\* target.searchParams.set('t', Date.now().toString()): the clock read at that line
targetT(now, arrived) == now

\* Last segment: the target URL's ad, pack and t, and the 302
ScanRedirect(r, queryAd) ==
    /\ cur = r
    /\ req[r].pc = "target"
    /\ \E j \in Jitter :
         LET n == selectAd(queryAd)
         IN  /\ clock' = clock + j
             /\ jits' = jits + j
             /\ req' = [req EXCEPT ![r] =
                          [@ EXCEPT !.qa = queryAd, !.ad = n, !.pack = packOf(n),
                                    !.t = targetT(clock + j, req[r].now1),
                                    !.status = 302, !.pc = "done"]]
    /\ cur' = release(req', google, r)
    /\ UNCHANGED <<env, google, recentScans, metrics, disk, sheet,
                   faults, lastAllowed>>

(***************************************************************************)
(* googleSheetsStore behind hybridStore                                    *)
(***************************************************************************)
\* initGoogleSheets settles: the sheet, or null after an error
GoogleInit ==
    /\ cur = 0
    /\ google = "pending"
    /\ google' \in {"ready", "none"}
    /\ clock' \in Later
    /\ cur' = release(req, google', 0)
    /\ UNCHANGED <<env, recentScans, metrics, disk, sheet,
                   req, faults, jits, lastAllowed>>

\* await googleStore while initGoogleSheets is still running: the handler is parked
Park(r) ==
    /\ cur = r
    /\ req[r].pc = "awaitGoogle"
    /\ google = "pending"
    /\ cur' = 0
    /\ UNCHANGED <<clock, env, google, recentScans, metrics, disk,
                   sheet, req, faults, jits, lastAllowed>>

\* the column a handler's bump counts in
columnOf(kind) ==
    CASE kind = "scan" -> "QR_Scans"
      [] kind = "win"  -> "Game_Wins"
      [] kind = "play" -> "Total_Plays"

\* googleStore's bumpScan / bumpWin / bumpPlay up to updateSheetValue's sheet.getRows()
GoogleBump(r) ==
    /\ cur = r
    /\ req[r].pc = "awaitGoogle"
    /\ req[r].kind \in {"scan", "win", "play"}
    /\ google # "pending"
    /\ IF google = "none"
       THEN /\ req' = [req EXCEPT ![r] = [@ EXCEPT !.pc = afterBump(req[r].kind)]]
            /\ UNCHANGED <<clock, cur, jits>>
       ELSE \E j \in Jitter :
              /\ clock' = clock + j
              /\ jits' = jits + j
              /\ req' = [req EXCEPT ![r] =
                           [@ EXCEPT !.date = dayKeyBrisbane(clock + j),
                                     !.column = columnOf(req[r].kind),
                                     !.pc = "getRows"]]
              /\ cur' = release(req', google, r)
    /\ UNCHANGED <<env, google, recentScans, metrics, disk, sheet,
                   faults, lastAllowed>>

\* the instants at which the answer to a sheet call can reach handler r: the scan
\* handler reads the clock again afterwards, the /api handlers do not
AnswerAt(r) == IF req[r].kind = "scan" THEN Later ELSE {clock}

\* mutant: updateSheetValue without its catch, the error reaching the handler
sheetErrorRethrown(kind) == IF kind = "scan" THEN "threw" ELSE "apiCatch"

\* where a handler continues after a sheet call of its bump threw: updateSheetValue's
\* catch logs the error and the bump returns as after a save
afterSheetError(kind) == afterBump(kind)

\* a sheet call throws
SheetCallFails(r) ==
    /\ cur = 0
    /\ req[r].pc \in {"getRows", "addRow", "save"}
    /\ faults < MaxFaults
    /\ faults' = faults + 1
    /\ req' = [req EXCEPT ![r] = [@ EXCEPT !.pc = afterSheetError(req[r].kind),
                                           !.rowIdx = 0, !.rawData = <<>>]]
    /\ cur' = IF req'[r].pc = "threw" THEN release(req', google, r) ELSE r
    /\ clock' \in AnswerAt(r)
    /\ UNCHANGED <<env, google, recentScans, metrics, disk,
                   sheet, jits, lastAllowed>>

\* sheet.getRows() answers; rows.find; the row found is bumped and row.save() is sent,
\* or sheet.addRow is sent
SheetGetRows(r) ==
    /\ cur = 0
    /\ req[r].pc = "getRows"
    /\ LET idx == findRow(sheet, req[r].date)
       IN  req' = [req EXCEPT ![r] =
                     IF idx = 0 THEN [@ EXCEPT !.pc = "addRow"]
                     ELSE [@ EXCEPT !.rowIdx = idx,
                                    !.rawData = bumpedRow(sheet[idx], req[r].column, 1),
                                    !.pc = "save"]]
    /\ UNCHANGED <<clock, env, google, recentScans, metrics, disk,
                   sheet, cur, faults, jits, lastAllowed>>

\* sheet.addRow([date, 0, 0, 0]) answers; the new row is bumped and row.save() is sent
SheetAddRow(r) ==
    /\ cur = 0
    /\ req[r].pc = "addRow"
    /\ LET row == <<req[r].date, 0, 0, 0>>
       IN  /\ sheet' = Append(sheet, row)
           /\ req' = [req EXCEPT ![r] =
                        [@ EXCEPT !.rowIdx = Len(sheet) + 1,
                                  !.rawData = bumpedRow(row, req[r].column, 1),
                                  !.pc = "save"]]
    /\ UNCHANGED <<clock, env, google, recentScans, metrics, disk,
                   cur, faults, jits, lastAllowed>>

\* row.save() answers: the row's cells are written as the handler holds them
SheetSave(r) ==
    /\ cur = 0
    /\ req[r].pc = "save"
    /\ sheet' = [sheet EXCEPT ![req[r].rowIdx] = req[r].rawData]
    /\ req' = [req EXCEPT ![r] = [@ EXCEPT !.pc = afterBump(req[r].kind),
                                           !.rowIdx = 0, !.rawData = <<>>]]
    /\ cur' = r
    /\ clock' \in AnswerAt(r)
    /\ UNCHANGED <<env, google, recentScans, metrics, disk,
                   faults, jits, lastAllowed>>

(***************************************************************************)
(* POST /api/win, POST /api/play (server.js only)                          *)
(***************************************************************************)
\* mutant: bumpWin and bumpPlay written after bumpScan, the file store called first
hybridBumpFileFirst(kind) == "bumpScan"

\* where a bump of the hybrid store starts: bumpScan at fileStoreInstance.bumpScan(),
\* bumpWin and bumpPlay at await googleStore
hybridBumpEntry(kind) == IF kind = "scan" THEN "bumpScan" ELSE "awaitGoogle"

\* the handler, taken up by the event loop at some later instant, up to
\* store.bumpWin() / store.bumpPlay()
ApiBump(r, kind) ==
    /\ CanArrive(r)
    /\ storeKind = "hybrid"
    /\ clock' \in Later
    /\ req' = [req EXCEPT ![r] = [@ EXCEPT !.kind = kind, !.pc = hybridBumpEntry(kind)]]
    /\ cur' = r
    /\ UNCHANGED <<env, google, recentScans, metrics, disk,
                   sheet, faults, jits, lastAllowed>>

\* res.json({ success: true }), or the handler's catch: res.status(500)
ApiRespond(r) ==
    /\ cur = r
    /\ req[r].pc \in {"respond", "apiCatch"}
    /\ req' = [req EXCEPT ![r] =
                 [@ EXCEPT !.status = IF req[r].pc = "respond" THEN 200 ELSE 500,
                           !.pc = "done"]]
    /\ cur' = release(req', google, r)
    /\ UNCHANGED <<clock, env, google, recentScans, metrics, disk,
                   sheet, faults, jits, lastAllowed>>

(***************************************************************************)
(* GET /kiosk/stats: requireAdmin, then store.getMetricsRows()             *)
(***************************************************************************)
\* the request answered 401 by requireAdmin
statsBlocked(rq, key) ==
    [rq EXCEPT !.kind = "stats", !.key = key, !.status = 401, !.pc = "done"]

\* the request answered with the rows of what getMetrics returned
statsAnswer(rq, result, keys) ==
    [rq EXCEPT !.status = 200, !.pc = "done", !.body = result,
               !.rows = getMetricsRows(keys, result.days)]

\* the file-only variant: the whole handler over fileStore.getMetricsRows
FileGetMetrics(r, key) ==
    /\ CanArrive(r)
    /\ storeKind = "file"
    /\ IF requireAdmin(key) = "blocked"
       THEN req' = [req EXCEPT ![r] = statsBlocked(@, key)]
       ELSE \E keys \in KeyOrders(DOMAIN metrics) :
              req' = [req EXCEPT ![r] =
                        statsAnswer([@ EXCEPT !.kind = "stats", !.key = key],
                                    [src |-> "local", days |-> metrics], keys)]
    /\ UNCHANGED <<clock, env, google, recentScans, metrics, disk,
                   sheet, cur, faults, jits, lastAllowed>>

\* server.js: requireAdmin, then hybridStore.getMetricsRows -> getMetrics up to
\* await googleStore
HybridGetMetrics(r, key) ==
    /\ CanArrive(r)
    /\ storeKind = "hybrid"
    /\ IF requireAdmin(key) = "blocked"
       THEN /\ req' = [req EXCEPT ![r] = statsBlocked(@, key)]
            /\ cur' = 0
       ELSE /\ req' = [req EXCEPT ![r] =
                         [@ EXCEPT !.kind = "stats", !.key = key, !.pc = "awaitGoogle"]]
            /\ cur' = r
    /\ UNCHANGED <<clock, env, google, recentScans, metrics, disk,
                   sheet, faults, jits, lastAllowed>>

\* getStats: { days: {} } at once when the sheet is null, getMetrics going on to its
\* fallback in later microtask turns; else sheet.getRows() is sent
GetStats(r) ==
    /\ cur = r
    /\ req[r].pc = "awaitGoogle"
    /\ req[r].kind = "stats"
    /\ google # "pending"
    /\ req' = [req EXCEPT ![r] =
                 [@ EXCEPT !.pc = IF google = "none" THEN "statsLocal" ELSE "statsRows"]]
    /\ cur' = release(req', google, r)
    /\ UNCHANGED <<clock, env, google, recentScans, metrics, disk,
                   sheet, faults, jits, lastAllowed>>

\* the sheet is null: getMetrics returns the file store's metrics as they are when the
\* handlers resumed before have run on, getMetricsRows sorts the days and the handler
\* answers
StatsLocal(r) ==
    /\ cur = r
    /\ req[r].pc = "statsLocal"
    /\ \E keys \in KeyOrders(DOMAIN metrics) :
         req' = [req EXCEPT ![r] =
                   statsAnswer(@, hybridGetMetrics(<<>>, metrics), keys)]
    /\ cur' = release(req', google, r)
    /\ UNCHANGED <<clock, env, google, recentScans, metrics, disk,
                   sheet, faults, jits, lastAllowed>>

\* sheet.getRows() of getStats is served: the rows as they are now, or an error
StatsRows(r) ==
    /\ cur = 0
    /\ req[r].pc = "statsRows"
    /\ \/ /\ req' = [req EXCEPT ![r] = [@ EXCEPT !.primary = <<sheet>>, !.pc = "statsBack"]]
          /\ UNCHANGED faults
       \/ /\ faults < MaxFaults
          /\ faults' = faults + 1
          /\ req' = [req EXCEPT ![r] = [@ EXCEPT !.primary = <<>>, !.pc = "statsBack"]]
    /\ UNCHANGED <<clock, env, google, recentScans, metrics, disk,
                   sheet, cur, jits, lastAllowed>>

\* the answer reaches the process: getStats returns, getMetrics picks primary or file,
\* getMetricsRows sorts the days and the handler answers
StatsBack(r) ==
    /\ cur = 0
    /\ req[r].pc = "statsBack"
    /\ LET result == hybridGetMetrics(req[r].primary, metrics)
       IN  \E keys \in KeyOrders(DOMAIN result.days) :
             req' = [req EXCEPT ![r] = statsAnswer(@, result, keys)]
    /\ UNCHANGED <<clock, env, google, recentScans, metrics, disk,
                   sheet, cur, faults, jits, lastAllowed>>

Next ==
    \/ \E r \in Reqs, a \in Addrs : ScanGate(r, a)
    \/ \E r \in Reqs : FileBumpScan(r)
    \/ \E r \in Reqs : FileBumpRedirect(r)
    \/ \E r \in Reqs, q \in QueryAds : ScanRedirect(r, q)
    \/ GoogleInit
    \/ \E r \in Reqs : Park(r)
    \/ \E r \in Reqs : GoogleBump(r)
    \/ \E r \in Reqs : SheetCallFails(r)
    \/ \E r \in Reqs : SheetGetRows(r)
    \/ \E r \in Reqs : SheetAddRow(r)
    \/ \E r \in Reqs : SheetSave(r)
    \/ \E r \in Reqs, k \in {"win", "play"} : ApiBump(r, k)
    \/ \E r \in Reqs : ApiRespond(r)
    \/ \E r \in Reqs : HybridGetMetrics(r, <<>>)
    \/ \E r \in Reqs : GetStats(r)
    \/ \E r \in Reqs : StatsLocal(r)
    \/ \E r \in Reqs : StatsRows(r)
    \/ \E r \in Reqs : StatsBack(r)

Spec == Init /\ [][Next]_vars

NextFile ==
    \/ \E r \in Reqs, a \in Addrs : ScanGate(r, a)
    \/ \E r \in Reqs : FileBumpScan(r)
    \/ \E r \in Reqs : FileBumpRedirect(r)
    \/ \E r \in Reqs, q \in QueryAds : ScanRedirect(r, q)
    \/ \E r \in Reqs : FileGetMetrics(r, <<>>)

SpecFile == InitFile /\ [][NextFile]_vars

\* one scan, under every configuration and every override
NextAd ==
    \/ \E a \in Addrs : ScanGate(1, a)
    \/ FileBumpScan(1)
    \/ FileBumpRedirect(1)
    \/ \E q \in Optional(Strs) : ScanRedirect(1, q)

SpecAd == InitAd /\ [][NextAd]_vars

(***************************************************************************)
(* Rotation mode of the ad pack selector (spec 4.2): the ad of a scan      *)
(* without valid override is the one a table maps the weekday of now to,   *)
(* the weekday taken in Australia/Brisbane.  Weekdays are 0 (Sunday) to 6. *)
(***************************************************************************)
\* mutant: the weekday taken in UTC
weekdayUTC(t) == (4 + (t \div MsPerDay)) % 7

\* the weekday of instant t in Brisbane; 1970-01-01 was a Thursday
weekdayBrisbane(t) == (4 + ((t + BrisbaneOffsetMs) \div MsPerDay)) % 7

\* the tables of the runs: the weekday's number plus one, and 8 at weekends, 3 in the week
RotationTables ==
    { [w \in 0..6 |-> <<DigitChar(w + 1)>>],
      [w \in 0..6 |-> IF w \in {0, 6} THEN <<"8">> ELSE <<"3">>] }

\* select(override, now) in rotation mode
selectRotation(queryAd, now) ==
    LET qa == trim(orElse(queryAd, <<>>))
    IN  IF isAdDigit(qa) THEN qa ELSE rotation[1][weekdayBrisbane(now)]

\* the last segment of the scan handler with the selector in rotation mode
ScanRedirectRotation(r, queryAd) ==
    /\ cur = r
    /\ req[r].pc = "target"
    /\ rotation # <<>>
    /\ \E j \in Jitter :
         LET n == selectRotation(queryAd, clock + j)
         IN  /\ clock' = clock + j
             /\ jits' = jits + j
             /\ req' = [req EXCEPT ![r] =
                          [@ EXCEPT !.qa = queryAd, !.ad = n, !.pack = packOf(n),
                                    !.t = targetT(clock + j, req[r].now1),
                                    !.status = 302, !.pc = "done"]]
    /\ cur' = release(req', google, r)
    /\ UNCHANGED <<env, google, recentScans, metrics, disk, sheet, faults, lastAllowed>>

\* the file-only server started on any of seven consecutive days, 15 minutes before
\* midnight in Brisbane, under any of the tables
InitRotation ==
    /\ clock \in { StartClock + k * MsPerDay : k \in 0..6 }
    /\ storeKind = "file"
    /\ google = "none"
    /\ envForceAd = <<>>
    /\ envAdminKey = <<>>
    /\ rotation \in { <<tb>> : tb \in RotationTables }
    /\ recentScans = [k \in {} |-> 0]
    /\ metrics = NoDays
    /\ disk = NoDays
    /\ sheet = <<>>
    /\ req = [r \in Reqs |-> IdleReq]
    /\ cur = 0
    /\ faults = 0
    /\ jits = 0
    /\ lastAllowed = [k \in IPs |-> 0]

\* one scan, with and without override
NextRotation ==
    \/ \E a \in Addrs : ScanGate(1, a)
    \/ FileBumpScan(1)
    \/ FileBumpRedirect(1)
    \/ \E q \in Optional({ <<"8">>, <<"x">> }) : ScanRedirectRotation(1, q)

SpecRotation == InitRotation /\ [][NextRotation]_vars

(***************************************************************************)
(* The stats endpoint of a process started over metrics of earlier days:   *)
(* fileStore loads data/metrics.json, the sheet holds the rows it was left *)
(* with.                                                                   *)
(***************************************************************************)
\* the days data/metrics.json can hold at start
StoredDays == { <<1970, 1, 9>>, <<1970, 1, 10>>, <<1970, 2, 1>> }

\* the file-only variant starts over any of these days, server.js over none or all
StoredMetrics ==
    { [d \in S |-> [qr_scans |-> 2, redirects |-> 1]] :
        S \in IF storeKind = "file" THEN SUBSET StoredDays ELSE { {}, StoredDays } }

\* the rows the sheet can hold at start: none, two days in reverse order, a day in two
\* rows around another, a row without date
StoredSheets ==
    { <<>>,
      << <<(<<1970, 1, 10>>), 3, 1, 1>>, <<(<<1970, 1, 9>>), 2, 0, 0>> >>,
      << <<(<<1970, 2, 1>>), 1, 0, 0>>, <<(<<1970, 1, 9>>), 2, 0, 0>>,
         <<(<<1970, 2, 1>>), 4, 1, 2>> >>,
      << <<(<<>>), 5, 0, 0>> >> }

\* ADMIN_KEY of the environment: unset, empty or "k"; key of the query: absent, "k" or "x"
AdminKeys == Optional({ <<>>, <<"k">> })
QueryKeys == Optional({ <<"k">>, <<"x">> })

InitStats ==
    /\ clock = StartClock
    /\ storeKind \in {"file", "hybrid"}
    /\ google \in IF storeKind = "file" THEN {"none"} ELSE {"pending", "none"}
    /\ envForceAd = <<>>
    /\ envAdminKey \in AdminKeys
    /\ rotation = <<>>
    /\ recentScans = [k \in {} |-> 0]
    /\ metrics \in StoredMetrics
    /\ disk = metrics
    /\ sheet \in IF storeKind = "file" THEN {<<>>} ELSE StoredSheets
    /\ req = [r \in Reqs |-> IdleReq]
    /\ cur = 0
    /\ faults = 0
    /\ jits = 0
    /\ lastAllowed = [k \in IPs |-> 0]

NextStats ==
    \/ \E r \in Reqs, k \in QueryKeys : FileGetMetrics(r, k)
    \/ \E r \in Reqs, k \in QueryKeys : HybridGetMetrics(r, k)
    \/ GoogleInit
    \/ \E r \in Reqs : Park(r)
    \/ \E r \in Reqs : GetStats(r)
    \/ \E r \in Reqs : StatsLocal(r)
    \/ \E r \in Reqs : StatsRows(r)
    \/ \E r \in Reqs : StatsBack(r)

SpecStats == InitStats /\ [][NextStats]_vars

(***************************************************************************)
(* Properties.                                                             *)
(***************************************************************************)
Scans == { r \in Reqs : req[r].kind = "scan" }
\* scans the gate turned away with the wait page
Denied == { r \in Scans : req[r].pc = "done" /\ req[r].status = 200 }
\* scans the gate let through
Allowed == Scans \ Denied
\* scans answered with the redirect
Redirected == { r \in Scans : req[r].pc = "done" /\ req[r].status = 302 }

Abs(x) == IF x >= 0 THEN x ELSE -x

\* C1: a scan is allowed iff its client has no earlier allowed scan or at least the
\* cooldown has elapsed since the last one; so two allowed scans of one client lie at
\* least 15 minutes apart.
C1_AllowedIffCooldownElapsed ==
    /\ \A r \in Scans :
         (r \in Allowed) <=>
            (req[r].prior = 0 \/ req[r].now1 - req[r].prior >= 15 * 60 * 1000)
    /\ \A r1, r2 \in Allowed :
         (r1 # r2 /\ req[r1].ip = req[r2].ip)
            => Abs(req[r1].now1 - req[r2].now1) >= 15 * 60 * 1000

\* allowed, denied inside the window, allowed again once it has elapsed
C1_Witness ==
    \E r1, r2, r3 \in Scans :
        /\ r1 < r2 /\ r2 < r3
        /\ req[r1].ip = req[r2].ip /\ req[r2].ip = req[r3].ip
        /\ r1 \in Allowed /\ r2 \in Denied /\ r3 \in Allowed
        /\ req[r3].prior # 0

\* C2: the wait a denied scan reports is between 1 and 15 minutes (stated for the
\* runs in which no I/O fails).
C2_DeniedWaitPositive ==
    faults = 0 => \A r \in Denied : req[r].wait \in 1..15

\* C3: a step that denies a scan answers 200 and leaves the cooldown map, the file
\* store's metrics, the metrics file and the sheet as they were.
C3_DeniedChangesNothing ==
    [][\A r \in Reqs :
          (req[r].pc = "idle" /\ req'[r].kind = "scan" /\ req'[r].pc = "done")
             => /\ req'[r].status = 200
                /\ recentScans' = recentScans
                /\ metrics' = metrics
                /\ disk' = disk
                /\ sheet' = sheet]_vars

\* a scan denied 5 minutes after the allowed one, the entry still holding the first instant
C3_Witness ==
    \E r \in Denied :
        /\ req[r].ip \in DOMAIN recentScans
        /\ recentScans[req[r].ip] = req[r].prior
        /\ req[r].now1 > req[r].prior
        /\ metrics # NoDays

\* C9: when recordScan returns, no entry is older than twice the cooldown, measured
\* at the clock reading recordScan took its cutoff from.
C9_NoStaleEntryAfterRecord ==
    [][\A r \in Reqs :
          (req[r].pc = "idle" /\ req'[r].pc = "bumpScan")
             => \A ip \in DOMAIN recentScans' :
                   req'[r].cutNow - recentScans'[ip] <= 2 * 15 * 60 * 1000]_vars

\* a client's entry has been swept
C9_Witness ==
    \E ip \in IPs : lastAllowed[ip] # 0 /\ ip \notin DOMAIN recentScans

\* C10: of two denied scans of a client with no allowed scan of it in between, the
\* later reports a wait no longer than the earlier.
C10_WaitNonIncreasing ==
    \A r1, r2 \in Denied :
        (/\ r1 < r2
         /\ req[r1].ip = req[r2].ip
         /\ ~ \E r \in Allowed : r1 < r /\ r < r2 /\ req[r].ip = req[r1].ip)
        => req[r2].wait <= req[r1].wait

\* two denials of one window, the second with a shorter wait
C10_Witness ==
    \E r1, r2 \in Denied :
        /\ r1 < r2
        /\ req[r1].ip = req[r2].ip
        /\ req[r1].prior = req[r2].prior
        /\ req[r2].wait < req[r1].wait

\* the file store's counter of a day, 0 while the day has no record
counter(day, field) == IF day \in DOMAIN metrics THEN metrics[day][field] ELSE 0

DaysSeen ==
    (DOMAIN metrics \cup { req[r].scanDay : r \in Scans }
                   \cup { req[r].redirDay : r \in Scans }) \ {<<>>}

\* C4: without storage failure, under every interleaving of the handlers, each day's
\* qr_scans and redirects count exactly the bumpScan and bumpRedirect calls made on that
\* day; once the allowed scans of a one-day run have completed, both equal their number.
C4_NoIncrementLost ==
    faults = 0 =>
        /\ \A d \in DaysSeen :
             /\ counter(d, "qr_scans") = Cardinality({ r \in Scans : req[r].scanDay = d })
             /\ counter(d, "redirects") = Cardinality({ r \in Scans : req[r].redirDay = d })
        /\ \A d \in DaysSeen :
             (Allowed = Redirected /\ DaysSeen = {d})
                => /\ counter(d, "qr_scans") = Cardinality(Redirected)
                   /\ counter(d, "redirects") = Cardinality(Redirected)

\* two allowed scans of one day have completed; their sheet calls were in flight
\* together (each added a row)
C4_Witness ==
    /\ faults = 0
    /\ google = "ready"
    /\ Cardinality(Redirected) = 2
    /\ Allowed = Redirected
    /\ Len(sheet) = 2
    /\ Cardinality(DaysSeen) = 1

\* C5: no step makes a stored counter smaller, neither in the file store nor in a row
\* of the sheet.
C5_CountersNeverDecrease ==
    [][/\ \A d \in DOMAIN metrics :
             /\ d \in DOMAIN metrics'
             /\ metrics'[d].qr_scans >= metrics[d].qr_scans
             /\ metrics'[d].redirects >= metrics[d].redirects
       /\ \A i \in 1..Len(sheet) :
             /\ i <= Len(sheet')
             /\ sheet'[i][1] = sheet[i][1]
             /\ \A c \in 2..4 : sheet'[i][c] >= sheet[i][c]]_vars

\* C6: a failing store write never leaves an allowed scan without its answer.
C6_NoScanThrows ==
    \A r \in Allowed : req[r].pc # "threw"

\* t is the trim of s: s is t with white space before and after, and t neither
\* starts nor ends with white space
IsTrimOf(t, s) ==
    /\ \E i \in 0..Len(s) : \E k \in 0..Len(s) :
          /\ i + Len(t) + k = Len(s)
          /\ \A x \in 1..i : s[x] \in WhiteSpace
          /\ \A x \in 1..Len(t) : s[i + x] = t[x]
          /\ \A x \in 1..k : s[i + Len(t) + x] \in WhiteSpace
    /\ t # <<>> => (t[1] \notin WhiteSpace /\ t[Len(t)] \notin WhiteSpace)

AdIds == { <<"1">>, <<"2">>, <<"3">>, <<"4">>, <<"5">>, <<"6">>, <<"7">>, <<"8">> }

\* an optional string trims to the ad id n
TrimsTo(x, n) == x # <<>> /\ IsTrimOf(n, x[1])

\* C7: the ad of every redirect is the trimmed override when that is a digit 1..8, else
\* the trimmed FORCE_AD when that is a digit 1..8, else 3; the pack is "ad" and the ad.
C7_AdSelection ==
    \A r \in Redirected :
        /\ req[r].ad \in AdIds
        /\ req[r].pack = <<"a", "d">> \o req[r].ad
        /\ IF \E n \in AdIds : TrimsTo(req[r].qa, n)
           THEN TrimsTo(req[r].qa, req[r].ad)
           ELSE IF \E n \in AdIds : TrimsTo(envForceAd, n)
                THEN TrimsTo(envForceAd, req[r].ad)
                ELSE req[r].ad = <<"3">>

\* an override with a blank before its digit won over a FORCE_AD outside 1..8
C7_Witness ==
    \E r \in Redirected :
        /\ req[r].qa = << <<" ", "8">> >>
        /\ envForceAd = << <<"9">> >>
        /\ req[r].ad = <<"8">>

\* the rows of a getStats answer hold at least one day
HoldsDay(primary) ==
    primary # <<>> /\ \E i \in 1..Len(primary[1]) : primary[1][i][1] # <<>>

\* C8: getMetrics always answers; it returns the file store's metrics as they are when
\* the primary threw or returned no day, and the primary's days when it returned one.
C8_GetMetricsFallsBack ==
    [][\A r \in Reqs :
          (req[r].kind = "stats" /\ req[r].pc # "done" /\ req'[r].pc = "done" /\ storeKind = "hybrid")
             => /\ req'[r].status = 200
                /\ IF HoldsDay(req[r].primary)
                   THEN /\ req'[r].body.src = "primary"
                        /\ DOMAIN req'[r].body.days =
                              { req[r].primary[1][i][1] : i \in 1..Len(req[r].primary[1]) }
                   ELSE /\ req'[r].body.src = "local"
                        /\ req'[r].body.days = metrics]_vars

\* one read served by the sheet, one served by the file store after getStats threw
C8_Witness ==
    \E r1, r2 \in Reqs :
        /\ req[r1].kind = "stats" /\ req[r1].pc = "done"
        /\ req[r1].body.src = "primary"
        /\ req[r2].kind = "stats" /\ req[r2].pc = "done"
        /\ req[r2].body.src = "local"
        /\ req[r2].body.days # NoDays
        /\ google = "ready"

\* stats requests answered with the table
Served == { r \in Reqs : req[r].kind = "stats" /\ req[r].pc = "done" /\ req[r].status = 200 }

\* day a lies before day b in the calendar
DayBefore(a, b) ==
    \/ a[1] < b[1]
    \/ a[1] = b[1] /\ a[2] < b[2]
    \/ a[1] = b[1] /\ a[2] = b[2] /\ a[3] < b[3]

\* C11: the rows getMetricsRows returns are one row per day of the metrics read (the
\* file store's days, or the dates of the sheet's rows when the sheet served the read),
\* each with that day's counters, in strictly ascending order of the days.
C11_RowsSortedOnePerDay ==
    \A r \in Served :
        LET rows == req[r].rows
            days == req[r].body.days
        IN  /\ { rows[i].day : i \in 1..Len(rows) } = DOMAIN days
            /\ Len(rows) = Cardinality(DOMAIN days)
            /\ \A i \in 1..Len(rows) : rows[i].rec = days[rows[i].day]
            /\ \A i, j \in 1..Len(rows) : i < j => DayBefore(rows[i].day, rows[j].day)
            /\ req[r].body.src = "local" => DOMAIN days = DOMAIN metrics
            /\ req[r].body.src = "primary" =>
                  DOMAIN days = { req[r].primary[1][i][1] :
                                    i \in 1..Len(req[r].primary[1]) } \ {<<>>}

\* one read served by a sheet holding a day in two rows and its days out of order, one
\* served by the file store's three days after the sheet's read failed
C11_Witness ==
    \E r1, r2 \in Served :
        /\ req[r1].body.src = "primary"
        /\ Len(req[r1].primary[1]) = 3
        /\ Len(req[r1].rows) = 2
        /\ req[r2].body.src = "local"
        /\ Len(req[r2].rows) = 3

\* an admin key is configured (set and not empty)
KeyConfigured == envAdminKey # <<>> /\ envAdminKey[1] # <<>>

\* the request carries the configured key
KeyMatches(r) == req[r].key # <<>> /\ req[r].key[1] = envAdminKey[1]

\* C12: without a configured admin key every stats request is served; with one, a
\* request whose key is missing or different is answered 401 at once, nothing having
\* been read from the stores or put in the answer, and a request with the matching key
\* is served the metrics.
C12_StatsKeyGate ==
    \A r \in Reqs :
        req[r].kind = "stats" =>
            IF KeyConfigured /\ ~KeyMatches(r)
            THEN /\ req[r].pc = "done"
                 /\ req[r].status = 401
                 /\ req[r].primary = <<>>
                 /\ req[r].body = <<>>
                 /\ req[r].rows = <<>>
            ELSE req[r].pc = "done" =>
                    /\ req[r].status = 200
                    /\ req[r].body # <<>>
                    /\ Len(req[r].rows) = Cardinality(DOMAIN req[r].body.days)

\* under the admin key "k": a request without key and one with key "x" turned away,
\* one with key "k" served the stored days
C12_Witness ==
    /\ envAdminKey = << <<"k">> >>
    /\ \E r1, r2, r3 \in Reqs :
          /\ req[r1].kind = "stats" /\ req[r1].key = <<>> /\ req[r1].status = 401
          /\ req[r2].kind = "stats" /\ req[r2].key = << <<"x">> >> /\ req[r2].status = 401
          /\ r3 \in Served /\ req[r3].key = << <<"k">> >> /\ Len(req[r3].rows) = 3

\* the positions of a handler waiting for the answer to a sheet call of its bump
InSheetCall == {"getRows", "addRow", "save"}

\* C13: when a sheet call of a bump fails, the sheet stays as it was and the handler
\* goes on as after a completed bump, holding the event loop; a handler past its bump
\* never calls the sheet again; and /api/win and /api/play always answer 200.
C13_SheetFailureCaught ==
    [][\A r \in Reqs :
          /\ (req[r].pc \in InSheetCall /\ req'[r] # req[r] /\ faults' = faults + 1)
                => /\ sheet' = sheet
                   /\ req'[r].pc = (IF req[r].kind = "scan" THEN "bumpRedirect" ELSE "respond")
                   /\ cur' = r
          /\ (req[r].pc \in {"respond", "bumpRedirect", "target", "done"})
                => req'[r].pc \notin InSheetCall \cup {"awaitGoogle"}
          /\ (req'[r].kind \in {"win", "play"} /\ req'[r].pc = "done")
                => req'[r].status = 200]_vars

\* the only request so far, a win, was answered 200 although the save of its new row
\* failed: the row still counts nothing
C13_Witness ==
    /\ faults = 1
    /\ google = "ready"
    /\ sheet # <<>> /\ sheet[1][3] = 0
    /\ \E r \in Reqs :
          /\ req[r].kind = "win" /\ req[r].pc = "done" /\ req[r].status = 200
          /\ \A o \in Reqs \ {r} : req[o].pc = "idle"

\* the bumpScan calls on day d that returned, and the bumpRedirect calls that returned
ScansCompleted(rq, d) ==
    { r \in Reqs : /\ rq[r].kind = "scan" /\ rq[r].scanDay = d
                   /\ rq[r].pc # "bumpScan"
                   /\ ~(rq[r].pc = "threw" /\ rq[r].redirDay = <<>>) }
RedirectsCompleted(rq, d) ==
    { r \in Reqs : rq[r].kind = "scan" /\ rq[r].redirDay = d /\ rq[r].pc \in {"target", "done"} }

\* the counter of a day in a metrics file, 0 while the file has no record of the day
stored(dk, d, field) == IF d \in DOMAIN dk THEN dk[d][field] ELSE 0

\* C14: a step that completes a bumpScan or a bumpRedirect leaves the metrics file equal
\* to the in-memory mapping, and the file (what a restart loads) always holds, for every
\* day, exactly the number of bumpScan and of bumpRedirect calls completed on that day.
C14_SnapshotCountsCompleted ==
    [][/\ \A r \in Reqs :
             (\/ req[r].pc = "bumpScan" /\ req'[r].pc \in {"bumpRedirect", "awaitGoogle"}
              \/ req[r].pc = "bumpRedirect" /\ req'[r].pc = "target")
                => disk' = metrics'
       /\ \A d \in (DOMAIN disk' \cup { req'[r].scanDay : r \in Reqs }) \ {<<>>} :
             /\ stored(disk', d, "qr_scans") = Cardinality(ScansCompleted(req', d))
             /\ stored(disk', d, "redirects") = Cardinality(RedirectsCompleted(req', d))]_vars

\* C15: the sheet never holds two rows of the same date.
C15_OneRowPerDay ==
    \A i, j \in 1..Len(sheet) : i # j => sheet[i][1] # sheet[j][1]

\* the step answers request r with the redirect
Redirects(r) == req[r].pc # "done" /\ req'[r].pc = "done" /\ req'[r].status = 302

\* C16 as stated: the t of a redirect is the clock reading taken when its target is
\* built and is greater than the t of every redirect issued before it.
C16_TStrictlyIncreasing ==
    [][\A r \in Reqs :
          Redirects(r) =>
             /\ req'[r].t = clock'
             /\ \A o \in Redirected : req'[r].t > req[o].t]_vars

\* C16 as amended: the t of a redirect is the clock reading taken when its target is
\* built and is not smaller than the t of any redirect issued before it.
C16_TNeverDecreases ==
    [][\A r \in Reqs :
          Redirects(r) =>
             /\ req'[r].t = clock'
             /\ \A o \in Redirected : req'[r].t >= req[o].t]_vars

\* a scan overtaken by a later one while it waited for the sheet: it arrived first
\* and was redirected last, with the greater t
C16_Witness ==
    \E r1, r2 \in Redirected :
        /\ r1 < r2
        /\ req[r1].now1 < req[r2].now1
        /\ req[r1].t > req[r2].t

\* the weekday of a day key of January 1970, counted from the day of the month
WeekdayOfDay(day) == (day[3] + 3) % 7

\* C17: in rotation mode a redirect of a scan without override carries the ad the
\* table maps the weekday of the scan to, the weekday being that of the Brisbane day of
\* the instant the ad is selected at.
C17_RotationByBrisbaneWeekday ==
    \A r \in Redirected :
        (rotation # <<>> /\ req[r].qa = <<>>)
            => req[r].ad = rotation[1][WeekdayOfDay(dayKeyBrisbane(req[r].t))]

\* a scan without override just after midnight of a Sunday in Brisbane (Saturday in
\* UTC) got the ad of Sunday, which is not that of Saturday
C17_Witness ==
    \E r \in Redirected :
        /\ rotation # <<>>
        /\ req[r].qa = <<>>
        /\ dayKeyBrisbane(req[r].t) = <<1970, 1, 4>>
        /\ (req[r].t \div MsPerDay) + 1 = 3
        /\ req[r].ad = <<"1">>

\* C18: a scan arriving less than one hour after the last allowed scan of its client
\* is denied (stated for the runs in which no I/O fails).
C18_DeniedForOneHour ==
    faults = 0 =>
        \A r \in Scans :
            (req[r].prior # 0 /\ req[r].now1 - req[r].prior < 60 * 60 * 1000)
                => r \in Denied

\* the digits the documentation allows as FORCE_AD
DocumentedAdIds == { <<"1">>, <<"2">>, <<"3">>, <<"4">>, <<"5">>, <<"6">>, <<"7">> }

\* C19: the ad of a redirect without valid override is the configured FORCE_AD when
\* that is a digit 1..7, and 3 for every other configured value.
C19_ForcedAdOneToSeven ==
    \A r \in Redirected :
        (~ \E n \in AdIds : TrimsTo(req[r].qa, n))
            => /\ req[r].ad \in DocumentedAdIds
               /\ (~ \E n \in DocumentedAdIds : TrimsTo(envForceAd, n))
                     => req[r].ad = <<"3">>

\* scans let through and not yet answered
InFlight(rq) ==
    { r \in Reqs : rq[r].kind = "scan" /\ rq[r].pc \notin {"idle", "done", "threw"} }

\* the step lets scan r through the gate
PassesGate(r) == req[r].pc = "idle" /\ req'[r].kind = "scan" /\ req'[r].pc = "bumpScan"

\* C20 as stated: the step that lets a scan through has recorded its client's entry
\* before the handler first waits; a scan arriving less than the cooldown after the
\* last allowed scan of its client is denied, whatever the other handlers are waiting
\* for; and no two scans of one client are in flight at once.
C20_NoTwoInFlight ==
    [][/\ \A r \in Reqs :
             PassesGate(r) =>
                /\ req'[r].ip \in DOMAIN recentScans'
                /\ recentScans'[req'[r].ip] >= req'[r].now1
                /\ recentScans'[req'[r].ip] <= clock'
       /\ \A r \in Reqs :
             (/\ req'[r].kind = "scan" /\ req'[r].prior # 0
              /\ req'[r].now1 - req'[r].prior < 15 * 60 * 1000)
                => (req'[r].pc = "done" /\ req'[r].status = 200)
       /\ \A r1, r2 \in InFlight(req') :
             (r1 # r2) => req'[r1].ip # req'[r2].ip]_vars

\* C20 as amended: as stated, but two scans of one client can be in flight at once
\* when they arrived at least the cooldown apart.
C20_GateAtomic ==
    [][/\ \A r \in Reqs :
             PassesGate(r) =>
                /\ req'[r].ip \in DOMAIN recentScans'
                /\ recentScans'[req'[r].ip] >= req'[r].now1
                /\ recentScans'[req'[r].ip] <= clock'
       /\ \A r \in Reqs :
             (/\ req'[r].kind = "scan" /\ req'[r].prior # 0
              /\ req'[r].now1 - req'[r].prior < 15 * 60 * 1000)
                => (req'[r].pc = "done" /\ req'[r].status = 200)
       /\ \A r1, r2 \in InFlight(req') :
             (r1 # r2 /\ req'[r1].ip = req'[r2].ip)
                => Abs(req'[r1].now1 - req'[r2].now1) >= 15 * 60 * 1000]_vars

\* while a scan waits for the sheet, a second scan of its client was denied ten
\* minutes after it and a third was let through twenty minutes after it
C20_Witness ==
    \E r1, r2, r3 \in Scans :
        /\ req[r1].ip = req[r2].ip /\ req[r2].ip = req[r3].ip
        /\ req[r1].pc \in InSheetCall
        /\ r2 \in Denied /\ req[r2].prior >= req[r1].now1
        /\ req[r2].now1 > req[r1].now1
        /\ r3 \in InFlight(req) /\ r3 # r1
        /\ req[r3].now1 - req[r1].now1 >= 15 * 60 * 1000

\* the step is one of handler r
StepOf(r) == req'[r] # req[r]

\* C21: in the hybrid store no step of a win or play handler changes the file store
\* (memory or file); the bumpRedirect step counts the redirect in the file store and
\* leaves the sheet alone; a scan's bumpScan step counts it in the file store without
\* touching the sheet, every sheet call of a scan comes after that step, and the sheet
\* calls, completed or failed, leave the file store's count as it was.
C21_HybridWritePolicy ==
    [][\A r \in Reqs : StepOf(r) =>
          /\ req'[r].kind \in {"win", "play"}
                => /\ metrics' = metrics /\ disk' = disk
                   /\ req'[r].scanDay = <<>> /\ req'[r].redirDay = <<>>
          /\ req[r].pc = "bumpRedirect"
                => /\ sheet' = sheet
                   /\ stored(metrics', req'[r].redirDay, "redirects")
                         = stored(metrics, req'[r].redirDay, "redirects") + 1
          /\ (req[r].kind = "scan" /\ req[r].pc = "bumpScan")
                => /\ sheet' = sheet
                   /\ req[r].date = <<>>
                   /\ stored(metrics', req'[r].scanDay, "qr_scans")
                         = stored(metrics, req'[r].scanDay, "qr_scans") + 1
          /\ (req[r].kind = "scan" /\ req[r].pc \in InSheetCall \cup {"awaitGoogle"})
                => /\ req[r].scanDay # <<>>
                   /\ counter(req[r].scanDay, "qr_scans") >= 1
                   /\ metrics' = metrics /\ disk' = disk]_vars

\* a scan was redirected although its sheet call failed, and a win was answered after
\* its own row was saved: the file store counts the scan and the redirect and no win,
\* the sheet counts the win and no scan
C21_Witness ==
    /\ faults = 1
    /\ \E r1, r2 \in Reqs :
          /\ r1 \in Redirected
          /\ req[r2].kind = "win" /\ req[r2].pc = "done"
          /\ counter(req[r1].scanDay, "qr_scans") = 1
          /\ counter(req[r1].redirDay, "redirects") = 1
          /\ disk = metrics
          /\ Len(sheet) = 1
          /\ sheet[1][2] = 0 /\ sheet[1][3] = 1
          /\ \A o \in Reqs \ {r1, r2} : req[o].pc = "idle"

\* the entries the step removed from recentScans
Evicted == DOMAIN recentScans \ DOMAIN recentScans'

\* C22: the step that lets a scan through leaves its client's entry in the map, at the
\* instant it was written; every entry it removes is older than the cooldown window at
\* the sweep, so isRecentScan is false for it from then on, with the entry as without;
\* and the entries it keeps are unchanged.  A step that records nothing removes nothing.
C22_EvictionKeepsDecisions ==
    [][\A r \in Reqs :
          /\ PassesGate(r)
                => LET ip == req'[r].ip
                   IN  /\ ip \in DOMAIN recentScans'
                       /\ recentScans'[ip] = lastAllowed'[ip]
                       /\ req'[r].now1 <= recentScans'[ip] /\ recentScans'[ip] <= clock'
                       /\ ip \notin Evicted
                       /\ \A k \in Evicted :
                             /\ ~((clock' - recentScans[k]) < cooldownMs)
                             /\ \A e \in Elapse :
                                   ~isRecentScan(recentScans, k, clock' + e)
                       /\ \A k \in DOMAIN recentScans' \ {ip} :
                             k \in DOMAIN recentScans /\ recentScans'[k] = recentScans[k]
          /\ (StepOf(r) /\ ~PassesGate(r)) => recentScans' = recentScans]_vars

\* the entry of a client that was let through is gone from the map: a later scan of
\* another client swept it
C22_Witness ==
    \E k \in IPs :
        /\ lastAllowed[k] # 0
        /\ k \notin DOMAIN recentScans
        /\ \E r \in Allowed : req[r].ip # k /\ req[r].now1 - lastAllowed[k] > 2 * cooldownMs

\* C23: in every state and for every day the file store's redirects are at most its
\* qr_scans, and while no scan handler is in flight the two are equal for every day
\* (stated for the runs without a storage failure).
C23_RedirectsAtMostScans ==
    faults = 0 =>
        /\ \A d \in DaysSeen : counter(d, "redirects") <= counter(d, "qr_scans")
        /\ InFlight(req) = {}
              => \A d \in DaysSeen : counter(d, "redirects") = counter(d, "qr_scans")

\* C24: when a read of the hybrid store is answered, the qr_scans it returns for a day
\* is at least the qr_scans every read that was called earlier and answered earlier
\* returned for that day, whichever of the sheet and the file store served the two.
C24_ReadsNeverDecrease ==
    [][\A r \in Reqs :
          (/\ req[r].pc # "done" /\ req'[r].kind = "stats"
           /\ req'[r].pc = "done" /\ req'[r].status = 200)
             => \A o \in Served :
                  o < r =>
                    \A d \in DOMAIN req[o].body.days \cap DOMAIN req'[r].body.days :
                       req'[r].body.days[d].qr_scans >= req[o].body.days[d].qr_scans]_vars

====
